---- MODULE Spec2Model ----
(***************************************************************************)
(* Model of scripts/diff_l10n_branches.py: one run of main().  Text is a   *)
(* sequence of one-character strings, so that str.split, str.strip,        *)
(* str.splitlines and str.replace are computed as Python computes them.    *)
(* The git binary is the environment: the set of changes between the two   *)
(* commits and the set of objects tracked at r_commit are chosen in Init.  *)
(***************************************************************************)
EXTENDS Integers, Sequences, FiniteSets, TLC

\* ------------------------------------------------------------------ bounds
\* largest number of changed paths git reports between the two commits
MaxLines == 2

\* ------------------------------------------------------- text primitives
TAB == "\t"
NL == "\n"
SPACE == " "
\* the characters str.split() and str.strip() treat as whitespace
Whitespace == {SPACE, TAB, NL}

\* the positions of s that hold a character of set cs, and the n-th of a
\* set of positions
Positions(s, cs) == {k \in 1..Len(s) : s[k] \in cs}
Nth(ps, n) == CHOOSE k \in ps : Cardinality({q \in ps : q < k}) = n - 1

\* str.strip(): from the first to the last character that is not whitespace
strip(s) ==
    LET keep == {k \in 1..Len(s) : s[k] \notin Whitespace}
    IN IF keep = {} THEN <<>>
       ELSE SubSeq(s, CHOOSE k \in keep : \A q \in keep : k <= q,
                      CHOOSE k \in keep : \A q \in keep : q <= k)

\* the pieces of s between the occurrences of character sep, empty ones too
CutAt(s, sep) ==
    LET cuts == Positions(s, {sep})
        n == Cardinality(cuts)
    IN [j \in 1..(n + 1) |->
          SubSeq(s, IF j = 1 THEN 1 ELSE Nth(cuts, j - 1) + 1,
                    IF j = n + 1 THEN Len(s) ELSE Nth(cuts, j) - 1)]

\* str.splitlines() on text whose only line terminator is "\n": the pieces
\* between the terminators, without the empty piece after a final terminator
splitlines(s) ==
    LET pieces == CutAt(s, NL)
    IN IF pieces[Len(pieces)] = <<>> THEN SubSeq(pieces, 1, Len(pieces) - 1)
       ELSE pieces

\* str.split() with no separator: the fields are the maximal runs of
\* characters that are not whitespace
split(s) ==
    LET starts == {k \in 1..Len(s) :
                     s[k] \notin Whitespace /\ (k = 1 \/ s[k - 1] \in Whitespace)}
        ends == {k \in 1..Len(s) :
                   s[k] \notin Whitespace /\ (k = Len(s) \/ s[k + 1] \in Whitespace)}
    IN [j \in 1..Cardinality(starts) |-> SubSeq(s, Nth(starts, j), Nth(ends, j))]

\* str.replace(old, new): every occurrence of old that does not overlap an
\* earlier one, left to right
RECURSIVE PyReplace(_, _, _)
PyReplace(s, old, new) ==
    LET occ == {k \in 1..(Len(s) - Len(old) + 1) : SubSeq(s, k, k + Len(old) - 1) = old}
    IN IF occ = {} THEN s
       ELSE LET first == CHOOSE k \in occ : \A q \in occ : k <= q
            IN SubSeq(s, 1, first - 1) \o new
               \o PyReplace(SubSeq(s, first + Len(old), Len(s)), old, new)

IsPrefix(p, s) == Len(p) <= Len(s) /\ SubSeq(s, 1, Len(p)) = p

\* ------------------------------------------------- command line (main)
ContentDir == <<"c", "o", "n", "t", "e", "n", "t", "/">>
\* --src-lang default
DefaultSrcLang == <<"e", "n">>
L10nLangs == {<<"k", "o">>}
SrcLangs == {DefaultSrcLang}
LCommit == "dev-1.15-ko.3"
RCommit == "dev-1.15-ko.4"


\* ------------------------------------------------------------ variables
VARIABLES
    l10n_lang,              \* argument l10n-lang
    src_lang,               \* option --src-lang
    changes,                \* environment: what changed between the commits
    tracked,                \* environment: paths that exist at r_commit
    pc,                     \* position of the run
    lines,                  \* the lines of the name-status output
    i,                      \* index of the next line of the for loop
    files_to_be_deleted,
    files_to_be_renamed,
    files_to_be_modified,
    contrib,                \* per processed line: the list it was appended to
    calls,                  \* the git commands run so far, in order
    stdout,                 \* the lines printed
    exit_code

vars == <<l10n_lang, src_lang, changes, tracked, pc, lines, i,
          files_to_be_deleted, files_to_be_renamed, files_to_be_modified,
          contrib, calls, stdout, exit_code>>

l10n_lang_path == ContentDir \o l10n_lang
src_lang_path == ContentDir \o src_lang

\* ------------------------------------------ environment: the repository
StatusM == <<"M">>
StatusD == <<"D">>
StatusA == <<"A">>
StatusR100 == <<"R", "1", "0", "0">>
StatusR075 == <<"R", "0", "7", "5">>
StatusC075 == <<"C", "0", "7", "5">>
\* the status tokens git diff --name-status prints in this model
Statuses == {StatusM, StatusD, StatusA, StatusR100, StatusR075, StatusC075}
TwoPathStatuses == {StatusR100, StatusR075, StatusC075}

\* the files under content/<src_lang> that may have changed, in the order
\* git lists them: content/en/a, content/en/a b, content/en/content/en
SrcFiles(src) ==
    << src \o <<"/", "a">>,
       src \o <<"/", "a", " ", "b">>,
       src \o <<"/">> \o src >>

\* where a rename or copy of path p went
DestOf(p) == p \o <<"2">>

Change(status, path) ==
    [status |-> status, path |-> path,
     dest |-> IF status \in TwoPathStatuses THEN DestOf(path) ELSE <<>>]

\* the changes of the files picked by S, in listing order, statuses from st
RECURSIVE ChangesFrom(_, _, _, _)
ChangesFrom(k, S, st, src) ==
    IF k > Len(SrcFiles(src)) THEN <<>>
    ELSE (IF k \in S THEN <<Change(st[k], SrcFiles(src)[k])>> ELSE <<>>)
         \o ChangesFrom(k + 1, S, st, src)

\* one line of 'git diff --name-status': fields separated by tabs
NameStatusLine(c) ==
    c.status \o <<TAB>> \o c.path
    \o (IF c.dest = <<>> THEN <<>> ELSE <<TAB>> \o c.dest) \o <<NL>>

RECURSIVE NameStatusText(_)
NameStatusText(cs) ==
    IF cs = <<>> THEN <<>> ELSE NameStatusLine(Head(cs)) \o NameStatusText(Tail(cs))

\* git pathspec: the path itself or anything below it
PathspecMatches(spec, path) == path = spec \/ IsPrefix(spec \o <<"/">>, path)

Matched(cs, spec) ==
    SelectSeq(cs, LAMBDA c : PathspecMatches(spec, c.path)
                             \/ (c.dest # <<>> /\ PathspecMatches(spec, c.dest)))

\* the decimal digit of a count of at most three files
Digit(n) == IF n = 1 THEN "1" ELSE IF n = 2 THEN "2" ELSE "3"

\* raw output of 'git diff l r -- filepath': nothing when no changed path
\* matches, otherwise one block per matching path
RECURSIVE DiffText(_)
DiffText(cs) ==
    IF cs = <<>> THEN <<>>
    ELSE <<"d", "i", "f", "f", SPACE>> \o Head(cs).path \o <<NL>> \o DiffText(Tail(cs))

\* raw output of 'git diff l r --shortstat -- filepath'
ShortstatText(cs) ==
    IF cs = <<>> THEN <<>>
    ELSE <<SPACE, Digit(Len(cs)), SPACE, "f", "i", "l", "e", "s", NL>>

\* exit codes of 'git cat-file -e rev:path'
CatFileExit(rev, path) ==
    IF rev = RCommit /\ path \in tracked THEN {0} ELSE {1, 128}


\* ------------------------------------------------------------ the script
\* git_diff: the command line, and what check_output(...).decode().strip()
\* returns when the command exits with 0
GitDiffCmd(filepath, l_commit, r_commit, shortstat) ==
    [cmd |-> IF shortstat THEN "git diff --shortstat" ELSE "git diff",
     l |-> l_commit, r |-> r_commit, path |-> filepath, rc |-> 0]

git_diff(filepath, l_commit, r_commit, shortstat) ==
    IF shortstat THEN strip(ShortstatText(Matched(changes, filepath)))
    ELSE strip(DiffText(Matched(changes, filepath)))

\* git_exists: the command line and the value returned for exit code rc
GitExistsCmd(path, filepath, rc) ==
    [cmd |-> "git cat-file -e", l |-> "", r |-> path, path |-> filepath, rc |-> rc]

\* an existence check that takes only exit code 128 for a missing object
git_exists_only128(rc) == rc # 128

git_exists(rc) == rc = 0

NameStatusCmd(l_commit, r_commit, path, rc) ==
    [cmd |-> "git diff --name-status", l |-> l_commit, r |-> r_commit,
     path |-> path, rc |-> rc]

\* str.replace at the call of git_exists
replace(filepath, src, l10n) == PyReplace(filepath, src, l10n)

\* the fields of line k of the name-status output
diff_status(k) == split(lines[k])

Init ==
    /\ l10n_lang \in L10nLangs
    /\ src_lang \in SrcLangs
    /\ \E S \in SUBSET (1..Len(SrcFiles(ContentDir \o src_lang))) :
         /\ Cardinality(S) <= MaxLines
         /\ \E st \in [S -> Statuses] :
              changes = ChangesFrom(1, S, st, ContentDir \o src_lang)
    /\ tracked \in SUBSET {replace(SrcFiles(ContentDir \o src_lang)[k],
                                   ContentDir \o src_lang, ContentDir \o l10n_lang) :
                           k \in 1..Len(SrcFiles(ContentDir \o src_lang))}
    /\ pc = "main"
    /\ lines = <<>>
    /\ i = 1
    /\ files_to_be_deleted = <<>>
    /\ files_to_be_renamed = <<>>
    /\ files_to_be_modified = <<>>
    /\ contrib = <<>>
    /\ calls = <<>>
    /\ stdout = <<>>
    /\ exit_code = -1

\* main up to the for loop of git_diff_name_status: the name-status query
\* succeeds and its output is cut into lines
GitDiffNameStatus ==
    /\ pc = "main"
    /\ calls' = Append(calls, NameStatusCmd(LCommit, RCommit, src_lang_path, 0))
    /\ lines' = splitlines(strip(NameStatusText(changes)))
    /\ i' = 1
    /\ pc' = "classify"
    /\ UNCHANGED <<l10n_lang, src_lang, changes, tracked, files_to_be_deleted,
                   files_to_be_renamed, files_to_be_modified, contrib, stdout,
                   exit_code>>

\* check_output raises CalledProcessError, nothing catches it
GitDiffNameStatusFails ==
    /\ pc = "main"
    /\ \E rc \in {1, 128} :
         calls' = Append(calls, NameStatusCmd(LCommit, RCommit, src_lang_path, rc))
    /\ pc' = "error"
    /\ exit_code' = 1
    /\ UNCHANGED <<l10n_lang, src_lang, changes, tracked, lines, i,
                   files_to_be_deleted, files_to_be_renamed, files_to_be_modified,
                   contrib, stdout>>

\* str.startswith
startswith(s, prefix) == IsPrefix(prefix, s)

\* a chain whose last branch is an else instead of the elif for M
Dispatch_ElseModified(exists, status_letter) ==
    IF ~exists THEN "none"
    ELSE IF status_letter = <<"D">> THEN "deleted"
    ELSE IF startswith(status_letter, <<"R">>) THEN "renamed"
    ELSE "modified"

\* the if / elif chain of process_diff_status: the list the line goes to
Dispatch(exists, status_letter) ==
    IF ~exists THEN "none"
    ELSE IF status_letter = <<"D">> THEN "deleted"
    ELSE IF startswith(status_letter, <<"R">>) THEN "renamed"
    ELSE IF status_letter = <<"M">> THEN "modified"
    ELSE "none"

\* the dict appended for an R line
RenamedEntry(ds) ==
    [diff_status_letter |-> ds[1], src_filepath |-> ds[2], dest_filepath |-> ds[3]]

\* the dict appended for an M line
ModifiedEntry(filepath, l_commit, r_commit) ==
    [filepath |-> filepath,
     shortstat |-> git_diff(filepath, l_commit, r_commit, TRUE),
     diff |-> git_diff(filepath, l_commit, r_commit, FALSE)]

\* the two git diff commands in the opposite order
ModifiedCalls_FullFirst(filepath, l_commit, r_commit) ==
    <<GitDiffCmd(filepath, l_commit, r_commit, FALSE),
      GitDiffCmd(filepath, l_commit, r_commit, TRUE)>>

\* the git diff commands run while the dict of an M line is built, in order
ModifiedCalls(filepath, l_commit, r_commit) ==
    <<GitDiffCmd(filepath, l_commit, r_commit, TRUE),
      GitDiffCmd(filepath, l_commit, r_commit, FALSE)>>

\* one iteration of the for loop: process_diff_status on line i, when every
\* git diff command it runs exits with 0
ProcessDiffStatus ==
    /\ pc = "classify"
    /\ i <= Len(lines)
    /\ LET ds == diff_status(i)
           status_letter == ds[1]
           filepath == ds[2]
           l10n == replace(filepath, src_lang_path, l10n_lang_path)
       IN \E rc \in CatFileExit(RCommit, l10n) :
            LET to == Dispatch(git_exists(rc), status_letter)
                c1 == Append(calls, GitExistsCmd(RCommit, l10n, rc))
            IN /\ contrib' = Append(contrib, to)
               /\ files_to_be_deleted' =
                    IF to = "deleted" THEN Append(files_to_be_deleted, filepath)
                    ELSE files_to_be_deleted
               /\ files_to_be_renamed' =
                    IF to = "renamed" THEN Append(files_to_be_renamed, RenamedEntry(ds))
                    ELSE files_to_be_renamed
               /\ files_to_be_modified' =
                    IF to = "modified"
                    THEN Append(files_to_be_modified,
                                ModifiedEntry(filepath, LCommit, RCommit))
                    ELSE files_to_be_modified
               /\ calls' =
                    IF to = "modified"
                    THEN c1 \o ModifiedCalls(filepath, LCommit, RCommit)
                    ELSE c1
    /\ i' = i + 1
    /\ UNCHANGED <<l10n_lang, src_lang, changes, tracked, pc, lines, stdout,
                   exit_code>>

\* process_diff_status on an M line whose counterpart exists, when the
\* n-th of its two git diff commands exits non-zero
ProcessDiffStatusFails ==
    /\ pc = "classify"
    /\ i <= Len(lines)
    /\ LET ds == diff_status(i)
           filepath == ds[2]
           l10n == replace(filepath, src_lang_path, l10n_lang_path)
       IN /\ 0 \in CatFileExit(RCommit, l10n)
          /\ Dispatch(git_exists(0), ds[1]) = "modified"
          /\ \E n \in {1, 2}, rc \in {1, 128} :
               calls' = Append(calls, GitExistsCmd(RCommit, l10n, 0))
                        \o SubSeq(ModifiedCalls(filepath, LCommit, RCommit), 1, n - 1)
                        \o <<[ModifiedCalls(filepath, LCommit, RCommit)[n]
                                EXCEPT !.rc = rc]>>
    /\ pc' = "error"
    /\ exit_code' = 1
    /\ UNCHANGED <<l10n_lang, src_lang, changes, tracked, lines, i,
                   files_to_be_deleted, files_to_be_renamed, files_to_be_modified,
                   contrib, stdout>>


\* --------------------------------------------------------- ISSUE_TEMPLATE
\* a printed line: the template's text with {} where an expression is
\* substituted, and the substituted values; ' stands for the template's
\* backquote, which a string of this module cannot hold
Line(tpl, args) == [tpl |-> tpl, args |-> args]
Blank == Line("", <<>>)

\* jinja2's replace filter in the 'vi' line
replace_filter(s, old, new) == PyReplace(s, old, new)

\* an example taken from the last modified entry
ExampleFile_Last(modified) == modified[Len(modified)]

\* the path the worked example is about
ExampleFile(modified) == modified[1]

\* a condition that needs more than one modified entry
ShowSolution_MoreThanOne(modified) == Len(modified) > 1

\* {% if files_to_be_modified %}
ShowSolution(modified) == modified # <<>>

SectionModified(modified) ==
    <<Line("### {} files to be modified ", <<Len(modified)>>)>>
    \o [k \in 1..Len(modified) |->
          Line("1. [ ] {} {}", <<modified[k].filepath, modified[k].shortstat>>)]
    \o <<Blank, Blank>>

SectionRenamed(renamed) ==
    <<Line("### {} files to be renamed  ", <<Len(renamed)>>)>>
    \o [k \in 1..Len(renamed) |->
          Line("1. [ ] {} {} -> {}",
               <<renamed[k].diff_status_letter, renamed[k].src_filepath,
                 renamed[k].dest_filepath>>)]
    \o <<Blank, Blank>>

SectionDeleted(deleted) ==
    <<Line("### {} files to be deleted ", <<Len(deleted)>>)>>
    \o [k \in 1..Len(deleted) |-> Line("1. [ ] {}", <<deleted[k]>>)]
    \o <<Blank, Blank>>

SolutionBody(l_commit, r_commit, src, l10n, modified) ==
    << Blank, Blank,
       Line("Use 'git diff' to check what is changed in the upstream. And apply the upstream changes manually ", <<>>),
       Line("to the '{}' of '{}' branch.", <<l10n, r_commit>>),
       Blank,
       Line("For example:", <<>>),
       Line("'''", <<>>),
       Line("# checkout '{}'", <<r_commit>>),
       Line("...", <<>>),
       Line("# check what is updated in the upstream ", <<>>),
       Line("git diff {} {} -- {}",
            <<l_commit, r_commit, ExampleFile(modified).filepath>>),
       Line("# apply changes to content/ko", <<>>),
       Line("vi {}", <<replace_filter(ExampleFile(modified).filepath, src, l10n)>>),
       Line("...", <<>>),
       Line("# commit and push", <<>>),
       Line("...", <<>>),
       Line("# make PR to '{}'", <<r_commit>>),
       Line("'''", <<>>),
       Blank >>

\* issue_template.render(...) followed by print: the lines written
Render(l_commit, r_commit, src, l10n, deleted, modified, renamed) ==
    << Line("# This is a Bug Report", <<>>),
       Line("## Problem", <<>>),
       Line("Outdated files in the {} branch.", <<r_commit>>),
       Blank >>
    \o SectionModified(modified)
    \o SectionRenamed(renamed)
    \o SectionDeleted(deleted)
    \o <<Line("## Proposed Solution", <<>>), Blank>>
    \o (IF ShowSolution(modified)
        THEN SolutionBody(l_commit, r_commit, src, l10n, modified) ELSE <<>>)
    \o <<Blank, Blank, Line("## Pages to Update", <<>>), Blank>>

\* the rest of main after the for loop has run out of lines
RenderReport ==
    /\ pc = "classify"
    /\ i > Len(lines)
    /\ stdout' = Render(LCommit, RCommit, src_lang_path, l10n_lang_path,
                        files_to_be_deleted, files_to_be_modified,
                        files_to_be_renamed)
    /\ pc' = "done"
    /\ exit_code' = 0
    /\ UNCHANGED <<l10n_lang, src_lang, changes, tracked, lines, i,
                   files_to_be_deleted, files_to_be_renamed, files_to_be_modified,
                   contrib, calls>>

Next ==
    \/ GitDiffNameStatus
    \/ GitDiffNameStatusFails
    \/ ProcessDiffStatus
    \/ ProcessDiffStatusFails
    \/ RenderReport

Spec == Init /\ [][Next]_vars


\* ------------------------------------------------- what a diff line says
\* git separates the fields of a name-status line by tabs: the status token,
\* the (old) path and, for a rename or copy, the new path
Fields(k) == CutAt(lines[k], TAB)
Token(k) == Fields(k)[1]
PrimaryPath(k) == Fields(k)[2]
\* the localized counterpart of line k and whether it exists at r_commit
Localized(k) == PyReplace(PrimaryPath(k), src_lang_path, l10n_lang_path)
CounterpartExists(k) == Localized(k) \in tracked
IsRename(k) == Head(Token(k)) = "R"
Processed == 1..Len(contrib)
Count(seq, x) == Cardinality({j \in 1..Len(seq) : seq[j] = x})
PassOver == pc = "done"

\* C1: every line that put an entry into one of the three lists has a
\* localized counterpart (its primary path with src_lang_path replaced by
\* l10n_lang_path) that exists at r_commit; a line without one contributes
\* nothing.
C1_OnlyLinesWithCounterpart ==
    \A k \in Processed : contrib[k] # "none" => CounterpartExists(k)

\* C2: after the pass, every M line whose counterpart exists has exactly one
\* entry in the modified list, under its source path, with a non-empty
\* summary and a non-empty diff.
C2_ModifiedOncePerPath ==
    PassOver =>
      \A k \in Processed :
        (Token(k) = <<"M">> /\ CounterpartExists(k)) =>
          /\ contrib[k] = "modified"
          /\ Cardinality({j \in 1..Len(files_to_be_modified) :
                 files_to_be_modified[j].filepath = PrimaryPath(k)}) = 1
          /\ \A j \in 1..Len(files_to_be_modified) :
                 files_to_be_modified[j].filepath = PrimaryPath(k) =>
                   /\ files_to_be_modified[j].shortstat # <<>>
                   /\ files_to_be_modified[j].diff # <<>>

\* C3: after the pass, every D line whose counterpart exists has its source
\* path in the deleted list exactly once and added nothing to the other lists.
C3_DeletedOnce ==
    PassOver =>
      \A k \in Processed :
        (Token(k) = <<"D">> /\ CounterpartExists(k)) =>
          /\ contrib[k] = "deleted"
          /\ Count(files_to_be_deleted, PrimaryPath(k)) = 1

\* C4: after the pass, every R line whose old path has an existing
\* counterpart has the record {token, old path, new path} in the renamed
\* list exactly once.
C4_RenamedOnce ==
    PassOver =>
      \A k \in Processed :
        (IsRename(k) /\ CounterpartExists(k)) =>
          /\ contrib[k] = "renamed"
          /\ Count(files_to_be_renamed,
                   [diff_status_letter |-> Token(k), src_filepath |-> Fields(k)[2],
                    dest_filepath |-> Fields(k)[3]]) = 1


\* C5: a line whose status token is none of M, D, R<similarity> is ignored:
\* processing it changes none of the three lists, is not an error, and the
\* loop moves on to the next line.
OtherToken(k) == Token(k) # <<"M">> /\ Token(k) # <<"D">> /\ ~IsRename(k)

C5_OtherTokensIgnored ==
    [][(pc = "classify" /\ i <= Len(lines) /\ OtherToken(i)) =>
         /\ files_to_be_deleted' = files_to_be_deleted
         /\ files_to_be_renamed' = files_to_be_renamed
         /\ files_to_be_modified' = files_to_be_modified
         /\ pc' = "classify"
         /\ i' = i + 1]_vars

\* a run that printed its report after ignoring an added path whose
\* counterpart exists
C5_Witness ==
    /\ PassOver /\ stdout # <<>>
    /\ \E k \in Processed :
         Token(k) = <<"A">> /\ CounterpartExists(k) /\ contrib[k] = "none"

\* ------------------------------------------------------------ the report
HeadingAt == {j \in 1..Len(stdout) : stdout[j].tpl = "## Proposed Solution"}
PagesAt == {j \in 1..Len(stdout) : stdout[j].tpl = "## Pages to Update"}
\* the printed lines between the two headings that are not blank
SolutionText ==
    {j \in 1..Len(stdout) :
       /\ stdout[j].tpl # ""
       /\ \E h \in HeadingAt, p \in PagesAt : h < j /\ j < p}
GitDiffLines == {j \in SolutionText : stdout[j].tpl = "git diff {} {} -- {}"}
ViLines == {j \in SolutionText : stdout[j].tpl = "vi {}"}

\* C6 as stated: the report has the Proposed Solution section, heading
\* included, exactly when the modified list is not empty.
C6_SectionOmittedWithHeading ==
    PassOver =>
      /\ (files_to_be_modified = <<>>) <=> (HeadingAt = {})
      /\ (files_to_be_modified = <<>>) <=> (SolutionText = {})

\* C6 amended: the heading is always printed; the text under it is printed
\* exactly when the modified list is not empty.
C6_BodyOmittedHeadingKept ==
    PassOver =>
      /\ Cardinality(HeadingAt) = 1
      /\ (files_to_be_modified = <<>>) <=> (SolutionText = {})
      /\ files_to_be_modified # <<>> => (GitDiffLines # {} /\ ViLines # {})

\* a report printed with an empty modified list although lines were processed
C6_Witness ==
    PassOver /\ files_to_be_modified = <<>> /\ Len(lines) > 0 /\ HeadingAt # {}

\* C7: with a non-empty modified list the worked example's git diff line
\* names the two commits and the path of the first modified entry, the first
\* path a per-path diff was asked for, and its vi line names the localized
\* path whose existence the classification checked for that entry.
DiffCalls == SelectSeq(calls, LAMBDA c : c.cmd = "git diff --shortstat")

C7_ExampleNamesFirstModified ==
    (PassOver /\ files_to_be_modified # <<>>) =>
      /\ Cardinality(GitDiffLines) = 1 /\ Cardinality(ViLines) = 1
      /\ \A j \in GitDiffLines :
           /\ stdout[j].args = <<LCommit, RCommit, files_to_be_modified[1].filepath>>
           /\ stdout[j].args[3] = DiffCalls[1].path
      /\ \A j \in ViLines :
           /\ stdout[j].args =
                <<PyReplace(files_to_be_modified[1].filepath, src_lang_path,
                            l10n_lang_path)>>
           /\ \E c \in 1..Len(calls) :
                /\ calls[c].cmd = "git cat-file -e" /\ calls[c].rc = 0
                /\ calls[c].path = stdout[j].args[1]
                /\ calls[c + 1] = DiffCalls[1]

\* a report for two modified entries with different paths, the first of
\* them holding src_lang_path twice
C7_Witness ==
    /\ PassOver /\ Len(files_to_be_modified) = 2
    /\ files_to_be_modified[1].filepath # files_to_be_modified[2].filepath
    /\ \E k \in Processed : PrimaryPath(k) = src_lang_path \o <<"/">> \o src_lang_path
                            /\ contrib[k] = "modified"


\* ------------------------------------------------------ the git commands
IsCatFile(c) == c.cmd = "git cat-file -e"
IsNameStatus(c) == c.cmd = "git diff --name-status"
IsShortstat(c) == c.cmd = "git diff --shortstat"
IsFullDiff(c) == c.cmd = "git diff"
CatCalls == SelectSeq(calls, IsCatFile)
LastCall == calls[Len(calls)]

\* C8: a git diff command (name-status, summary or full diff) that exits
\* non-zero ends the run at once in the error state with nothing printed and
\* nothing run after it; an existence check that exits non-zero only makes
\* its line count as having no counterpart, and the run goes on.
C8_DiffFailureFatalExistsFailureNot ==
    /\ \A j \in 1..Len(calls) :
         (~IsCatFile(calls[j]) /\ calls[j].rc # 0) =>
            j = Len(calls) /\ pc = "error"
    /\ pc = "error" =>
         /\ stdout = <<>> /\ exit_code = 1
         /\ ~IsCatFile(LastCall) /\ LastCall.rc # 0
    /\ \A k \in Processed : CatCalls[k].rc # 0 => contrib[k] = "none"
    /\ (calls # <<>> /\ IsCatFile(LastCall)) => pc \in {"classify", "done"}
    /\ PassOver => stdout # <<>> /\ exit_code = 0

\* a run that went on after an existence check exited with 1 and then died
\* on the full diff of a later M line
C8_Witness ==
    /\ pc = "error" /\ stdout = <<>>
    /\ IsFullDiff(LastCall)
    /\ \E k \in Processed : CatCalls[k].rc = 1

RECURSIVE LinesWith(_, _)
LinesWith(k, list) ==
    IF k = 0 THEN <<>>
    ELSE LinesWith(k - 1, list)
         \o (IF CounterpartExists(k)
                /\ \/ list = "modified" /\ Token(k) = <<"M">>
                   \/ list = "deleted" /\ Token(k) = <<"D">>
                   \/ list = "renamed" /\ IsRename(k)
             THEN <<k>> ELSE <<>>)

C10_ListsAreSubsequences ==
    /\ pc = "main" =>
         files_to_be_deleted = <<>> /\ files_to_be_renamed = <<>>
         /\ files_to_be_modified = <<>>
    /\ Len(files_to_be_deleted) + Len(files_to_be_renamed)
         + Len(files_to_be_modified) <= Len(contrib)
    /\ LET n == Len(contrib)
           m == LinesWith(n, "modified")
           d == LinesWith(n, "deleted")
           r == LinesWith(n, "renamed")
       IN /\ Len(files_to_be_modified) = Len(m)
          /\ \A j \in 1..Len(m) : files_to_be_modified[j].filepath = PrimaryPath(m[j])
          /\ files_to_be_deleted = [j \in 1..Len(d) |-> PrimaryPath(d[j])]
          /\ files_to_be_renamed =
               [j \in 1..Len(r) |->
                  [diff_status_letter |-> Token(r[j]),
                   src_filepath |-> Fields(r[j])[2],
                   dest_filepath |-> Fields(r[j])[3]]]

====
